---------------------------- MODULE Spec2Model ----------------------------
(***************************************************************************)
(* NumpyLoader (perspective/python numpy.cpp): ingestion of numpy-backed   *)
(* source columns into a typed column table.                               *)
(*                                                                         *)
(* Memory is modelled at byte level.  A byte string is a sequence of       *)
(* values in 0..255, least significant byte first (little endian), so an   *)
(* int64, a double and a pointer are all sequences of 8 bytes and a raw    *)
(* pointer cast to another element type is a plain re-slicing of the same  *)
(* bytes.                                                                  *)
(***************************************************************************)
EXTENDS Integers, Sequences, FiniteSets, TLC

(***************************************************************************)
(* Bounds of the model                                                     *)
(***************************************************************************)
\* largest number of rows of the accessor's data (and of the table)
MaxRows == 2

(***************************************************************************)
(* Byte-string arithmetic                                                  *)
(***************************************************************************)
Byte == 0..255

Zeros(n) == [k \in 1..n |-> 0]

Pow2(k) == 2^k

\* byte string `b` extended with zero bytes to length n (unsigned widening),
\* or cut to its n low bytes (narrowing, as a C++ integer conversion does)
Resize(b, n) == [k \in 1..n |-> IF k <= Len(b) THEN b[k] ELSE 0]

\* unsigned comparison of two byte strings of the same length: -1, 0 or 1
RECURSIVE CmpB(_, _)
CmpB(a, b) ==
    IF Len(a) = 0 THEN 0
    ELSE LET n == Len(a) IN
         IF a[n] > b[n] THEN 1
         ELSE IF a[n] < b[n] THEN 0 - 1
         ELSE CmpB(SubSeq(a, 1, n - 1), SubSeq(b, 1, n - 1))

\* a + b + c modulo 2^(8*Len(a)), for byte strings of the same length
RECURSIVE AddB(_, _, _)
AddB(a, b, c) ==
    IF Len(a) = 0 THEN <<>>
    ELSE LET s == a[1] + b[1] + c IN
         <<s % 256>> \o AddB(Tail(a), Tail(b), s \div 256)

\* a - b - c modulo 2^(8*Len(a)), for byte strings of the same length
RECURSIVE SubB(_, _, _)
SubB(a, b, c) ==
    IF Len(a) = 0 THEN <<>>
    ELSE LET d == a[1] - b[1] - c IN
         <<d % 256>> \o SubB(Tail(a), Tail(b), IF d < 0 THEN 1 ELSE 0)

\* a * m + c modulo 2^(8*Len(a)), m a small natural number
RECURSIVE MulSmallB(_, _, _)
MulSmallB(a, m, c) ==
    IF Len(a) = 0 THEN <<>>
    ELSE LET p == a[1] * m + c IN
         <<p % 256>> \o MulSmallB(Tail(a), m, p \div 256)

\* bit k (0 = least significant) of byte string b
BitOf(b, k) == (b[(k \div 8) + 1] \div Pow2(k % 8)) % 2

\* the bits of b, index 1 = least significant bit
ToBits(b) == [k \in 1..(8 * Len(b)) |-> BitOf(b, k - 1)]

\* the byte string of a bit sequence whose length is a multiple of 8
FromBits(bits) ==
    [j \in 1..(Len(bits) \div 8) |->
        bits[8*j - 7] + 2 * bits[8*j - 6] + 4 * bits[8*j - 5] + 8 * bits[8*j - 4]
        + 16 * bits[8*j - 3] + 32 * bits[8*j - 2] + 64 * bits[8*j - 1]
        + 128 * bits[8*j]]

IsZeroB(b) == \A k \in 1..Len(b) : b[k] = 0

\* x mod m for natural numbers given as byte strings of the same length n
\* (m nonzero), by binary long division from bit hi down to bit 0; the
\* running remainder r carries one extra byte.  The leading zero bits of x
\* leave the remainder at zero.
RECURSIVE ModBits(_, _, _, _)
ModBits(x, m, hi, r) ==
    IF hi < 0 THEN r
    ELSE IF BitOf(x, hi) = 0 /\ IsZeroB(r) THEN ModBits(x, m, hi - 1, r)
    ELSE LET bit == BitOf(x, hi)
             r2 == AddB(r, r, bit)
             r3 == IF CmpB(r2, m) >= 0 THEN SubB(r2, m, 0) ELSE r2
         IN  IF Len(r3) = Len(r) THEN ModBits(x, m, hi - 1, r3) ELSE r3

ModB(x, m) ==
    LET n == Len(x) IN
    Resize(ModBits(Resize(x, n + 1), Resize(m, n + 1), 8 * n - 1, Zeros(n + 1)), n)

\* two's complement negation
NegB(b) == SubB(Zeros(Len(b)), b, 0)

\* sign bit of a two's complement byte string
IsNegB(b) == b[Len(b)] >= 128

\* sign extension of a two's complement byte string to n bytes
SignExtend(b, n) ==
    [k \in 1..n |-> IF k <= Len(b) THEN b[k] ELSE IF IsNegB(b) THEN 255 ELSE 0]

\* index (0-based) of the highest set bit of a nonzero byte string
RECURSIVE HighBit(_, _)
HighBit(b, k) == IF BitOf(b, k) = 1 THEN k ELSE HighBit(b, k - 1)

(***************************************************************************)
(* IEEE-754 binary64, on the 8 bytes of the value                          *)
(***************************************************************************)
\* npy_isnan of a double: exponent bits all ones and a nonzero fraction
npy_isnan(w) ==
    /\ w[8] % 128 = 127
    /\ w[7] \div 16 = 15
    /\ (w[7] % 16 # 0 \/ \E k \in 1..6 : w[k] # 0)

\* the double without its sign bit
FAbs(w) == [w EXCEPT ![8] = w[8] % 128]

\* the double 2147483647.0 (0x41DFFFFFFFC00000)
F64_INT32_MAX == <<0, 0, 192, 255, 255, 255, 223, 65>>

\* the double 2147483648.0 (0x41E0000000000000)
F64_2P31 == <<0, 0, 0, 0, 0, 0, 224, 65>>

\* item > 2147483647 for a double item: positive doubles order as their bits
GtInt32Max(w) == ~npy_isnan(w) /\ w[8] < 128 /\ CmpB(w, F64_INT32_MAX) > 0

\* item < -2147483648 for a double item
LtInt32Min(w) == ~npy_isnan(w) /\ w[8] >= 128 /\ CmpB(FAbs(w), F64_2P31) > 0

\* static_cast<double> of a 64-bit signed integer (round to nearest even)
I64ToF64(w) ==
    IF IsZeroB(w) THEN Zeros(8)
    ELSE
    LET sign == IF IsNegB(w) THEN 1 ELSE 0
        m    == IF IsNegB(w) THEN NegB(w) ELSE w
        e    == HighBit(m, 63)
        d    == e - 52
        \* bit k (0..52) of the 53-bit significand, before rounding
        Sig(k) == IF d + k >= 0 THEN BitOf(m, d + k) ELSE 0
        sig  == FromBits([k \in 1..56 |-> IF k <= 53 THEN Sig(k - 1) ELSE 0])
        guard  == IF d >= 1 THEN BitOf(m, d - 1) ELSE 0
        sticky == IF d >= 2 /\ (\E k \in 0..(d - 2) : BitOf(m, k) = 1) THEN 1 ELSE 0
        up   == IF guard = 1 /\ (sticky = 1 \/ Sig(0) = 1) THEN 1 ELSE 0
        rnd  == AddB(sig, Zeros(7), up)
        e2   == IF BitOf(rnd, 53) = 1 THEN e + 1 ELSE e
        expo == e2 + 1023
    IN  FromBits([k \in 1..64 |->
            IF k <= 52 THEN BitOf(rnd, k - 1)
            ELSE IF k <= 63 THEN (expo \div Pow2(k - 53)) % 2
            ELSE sign])

\* static_cast<double> of a 32-bit signed integer
I32ToF64(b) == I64ToF64(SignExtend(b, 8))

(***************************************************************************)
(* t_dtype                                                                 *)
(***************************************************************************)
\* the ten element types copy_array copies, in the order of its switch
NumericTypes ==
    {"DTYPE_UINT8", "DTYPE_UINT16", "DTYPE_UINT32", "DTYPE_UINT64",
     "DTYPE_INT8", "DTYPE_INT16", "DTYPE_INT32", "DTYPE_INT64",
     "DTYPE_FLOAT32", "DTYPE_FLOAT64"}

\* the types make_types can infer for a source array
InferredTypes == NumericTypes \cup {"DTYPE_BOOL", "DTYPE_STR"}

\* the types a schema can declare for a destination column
ColumnTypes == InferredTypes \cup {"DTYPE_TIME", "DTYPE_DATE"}

\* sizeof of the element type that stores one value of the dtype
Width(t) ==
    CASE t \in {"DTYPE_UINT8", "DTYPE_INT8", "DTYPE_BOOL"} -> 1
      [] t \in {"DTYPE_UINT16", "DTYPE_INT16"} -> 2
      [] t \in {"DTYPE_UINT32", "DTYPE_INT32", "DTYPE_FLOAT32", "DTYPE_DATE"} -> 4
      [] OTHER -> 8

\* kind of encoding of the dtype's elements
Kind(t) ==
    CASE t \in {"DTYPE_UINT8", "DTYPE_UINT16", "DTYPE_UINT32", "DTYPE_UINT64"} -> "uint"
      [] t \in {"DTYPE_INT8", "DTYPE_INT16", "DTYPE_INT32", "DTYPE_INT64"} -> "int"
      [] t \in {"DTYPE_FLOAT32", "DTYPE_FLOAT64"} -> "float"
      [] OTHER -> t

(***************************************************************************)
(* Destination column store (t_data_table, t_column)                       *)
(*                                                                         *)
(* A column is its declared dtype, its raw element storage of              *)
(* size * Width(dtype) bytes, the marshaled objects written to it (strings *)
(* and dates, whose storage encoding belongs to the store) and one status  *)
(* per row.  A column handle is the name under which the table holds the   *)
(* column.                                                                 *)
(***************************************************************************)
NoObj == [kind |-> "none", text |-> <<>>, ymd |-> <<0, 0, 0>>]

StrObj(s) == [kind |-> "str", text |-> s, ymd |-> <<0, 0, 0>>]

DateObj(ymd) == [kind |-> "date", text |-> <<>>, ymd |-> ymd]

\* a column of n rows as the table creates it
NewColumn(dtype, n) ==
    [dtype  |-> dtype,
     raw    |-> Zeros(n * Width(dtype)),
     obj    |-> [k \in 1..n |-> NoObj],
     status |-> [k \in 1..n |-> "new"]]

ColSize(col) == Len(col.status)

\* `bytes` written into `raw` from byte offset off; storage does not grow
WriteBytes(raw, off, bytes) ==
    [k \in 1..Len(raw) |->
        IF k > off /\ k <= off + Len(bytes) THEN bytes[k - off] ELSE raw[k]]

\* t_column::set_nth<T>(i, v), v given as the sizeof(T) bytes of the value
set_nth(col, i, bytes) ==
    [col EXCEPT !.raw = WriteBytes(@, i * Len(bytes), bytes),
                !.status[i + 1] = "valid"]

\* t_column::set_nth(i, v) for a string or a date
set_nth_obj(col, i, o) ==
    [col EXCEPT !.obj[i + 1] = o, !.status[i + 1] = "valid"]

\* t_column::unset(i): a present row becomes absent (update)
unset(col, i) ==
    IF i + 1 \in DOMAIN col.status THEN [col EXCEPT !.status[i + 1] = "unset"] ELSE col

\* t_column::clear(i): the row is absent from the start (load)
clear(col, i) ==
    IF i + 1 \in DOMAIN col.status THEN [col EXCEPT !.status[i + 1] = "clear"] ELSE col

\* t_column::valid_raw_fill(): every row present
valid_raw_fill(col) ==
    [col EXCEPT !.status = [k \in 1..ColSize(col) |-> "valid"]]

\* the bytes of row r (0-based) of a column, read at the width of its dtype
CellBytes(col, r) ==
    SubSeq(col.raw, r * Width(col.dtype) + 1, (r + 1) * Width(col.dtype))

\* t_data_table built from a schema: one column per name, all of n rows
NewTable(names, types, n) ==
    [size |-> n,
     cols |-> [c \in {names[k] : k \in 1..Len(names)} |->
                 NewColumn(types[CHOOSE k \in 1..Len(names) : names[k] = c], n)]]

HasColumn(t, name) == name \in DOMAIN t.cols

\* t_data_table::add_column(name, dtype, true)
add_column(t, name, dtype) ==
    [t EXCEPT !.cols = (name :> NewColumn(dtype, t.size)) @@ t.cols]

\* t_data_table::clone_column(existing, new): a copy of every row
clone_column(t, existing, new) ==
    [t EXCEPT !.cols = (new :> t.cols[existing]) @@ t.cols]

\* t_data_table::promote_column(name, new_dtype, iter_limit, fill): the
\* column is replaced by one of the new dtype; with fill, the rows before
\* iter_limit are converted from int32 and keep their status.  A name the
\* table does not hold is left alone.
promote_column(t, name, new_dtype, iter_limit, fill) ==
    IF ~HasColumn(t, name) THEN t
    ELSE
    LET old == t.cols[name]
        new == NewColumn(new_dtype, t.size)
        Conv(r) == IF new_dtype = "DTYPE_FLOAT64"
                   THEN I32ToF64(SubSeq(old.raw, 4 * r + 1, 4 * r + 4))
                   ELSE SignExtend(SubSeq(old.raw, 4 * r + 1, 4 * r + 4), 8)
        kept == IF fill /\ new_dtype \in {"DTYPE_FLOAT64", "DTYPE_INT64"}
                   /\ Len(old.raw) >= 4 * iter_limit
                THEN 0..(iter_limit - 1) ELSE {}
        filled ==
            [new EXCEPT
               !.raw = [k \in 1..Len(new.raw) |->
                          IF (k - 1) \div 8 \in kept
                          THEN Conv((k - 1) \div 8)[((k - 1) % 8) + 1] ELSE 0],
               !.status = [k \in 1..t.size |->
                          IF k - 1 \in kept THEN old.status[k] ELSE "new"]]
    IN  [t EXCEPT !.cols[name] = filled]

(***************************************************************************)
(* State                                                                   *)
(***************************************************************************)
VARIABLES
    m_init,      \* NumpyLoader::m_init
    m_names,     \* NumpyLoader::m_names
    m_types,     \* NumpyLoader::m_types
    m_accessor,  \* NumpyLoader::m_accessor: the Python accessor and its data
    tbl,         \* the t_data_table handed to the last fill_table
    call,        \* the arguments of the last fill_table
    fills,       \* one record per fill_column of the last fill_table
    ret          \* operation, status and value of the last call

vars == <<m_init, m_names, m_types, m_accessor, tbl, call, fills, ret>>

(***************************************************************************)
(* Source accessor (Python side)                                           *)
(*                                                                         *)
(* m_accessor = [nrows, cols], cols a sequence of                          *)
(*   [name, dtype, is_array, mem, nulls]:                                  *)
(* mem is the memory at array.data(), 8 * nrows bytes: the first           *)
(* nrows * Width(dtype) bytes are the array's elements and the rest is     *)
(* whatever follows the buffer; nulls is the set of null row offsets.      *)
(***************************************************************************)
\* m_accessor.row_count()
accessor_row_count == m_accessor.nrows

\* the text of the cell (c, i) as code points: column c's letter, then
\* e-acute for row 0, U+1F600 for row 1 and the euro sign plus the row's
\* digit for the others
CellText(c, i) ==
    <<97 + c>> \o (CASE i = 0 -> <<233>>
                     [] i = 1 -> <<128512>>
                     [] OTHER -> <<8364, 48 + i>>)

\* m_accessor.marshal(cidx, i, type): None for a null row, else the cell as
\* the type asks for it
marshal(cidx, i, type) ==
    LET c == m_accessor.cols[cidx + 1] IN
    IF i \in c.nulls THEN NoObj
    ELSE CASE type = "DTYPE_DATE" -> DateObj(<<2020, cidx + 1, i + 1>>)
           [] type = "DTYPE_BOOL" ->
                [kind |-> IF i % 2 = 0 THEN "true" ELSE "false",
                 text |-> <<>>, ymd |-> <<0, 0, 0>>]
           [] OTHER -> StrObj(CellText(cidx, i))

\* m_accessor._get_numpy_column(name, type): the array and the null list
get_numpy_column(name) ==
    LET k == CHOOSE j \in 1..Len(m_accessor.cols) : m_accessor.cols[j].name = name
    IN  m_accessor.cols[k]

\* the bytes of element i (0-based) of width w at raw pointer mem
ReadAt(mem, i, w) == SubSeq(mem, i * w + 1, (i + 1) * w)

\* element i of width w lies within the readable memory at the pointer; a
\* read that does not is a fault
Readable(mem, i, w) == (i + 1) * w <= Len(mem)

\* the last code point: to_bytes throws std::range_error above it
MaxCodePoint == 1114111

\* the UTF-8 bytes of a sequence of code points up to MaxCodePoint, one to
\* four bytes each
RECURSIVE utf8_bytes(_)
utf8_bytes(welem) ==
    IF Len(welem) = 0 THEN <<>>
    ELSE LET c == Head(welem) IN
         (IF c < 128 THEN <<c>>
          ELSE IF c < 2048 THEN <<192 + (c \div 64), 128 + (c % 64)>>
          ELSE IF c < 65536
          THEN <<224 + (c \div 4096), 128 + ((c \div 64) % 64), 128 + (c % 64)>>
          ELSE <<240 + (c \div 262144), 128 + ((c \div 4096) % 64),
                 128 + ((c \div 64) % 64), 128 + (c % 64)>>)
         \o utf8_bytes(Tail(welem))

\* to_bytes throws on this text
to_bytes_throws(welem) == \E k \in 1..Len(welem) : welem[k] > MaxCodePoint

\* std::wstring_convert::to_bytes: UTF-8 bytes of a sequence of code points,
\* or the exception it throws
to_bytes(welem) ==
    IF to_bytes_throws(welem) THEN "std::range_error" ELSE utf8_bytes(welem)

(***************************************************************************)
(* NumpyLoader                                                             *)
(***************************************************************************)
\* NumpyLoader::make_names
make_names == [k \in 1..Len(m_accessor.cols) |-> m_accessor.cols[k].name]

\* NumpyLoader::make_types: aborts on a value that is no array
make_types_ok == \A k \in 1..Len(m_accessor.cols) : m_accessor.cols[k].is_array

make_types == [k \in 1..Len(m_accessor.cols) |-> m_accessor.cols[k].dtype]

\* position (1-based) of name in m_names, 0 when std::find reaches end()
NameIndex(name) ==
    IF \E k \in 1..Len(m_names) : m_names[k] = name
    THEN CHOOSE k \in 1..Len(m_names) :
            m_names[k] = name /\ \A j \in 1..(k - 1) : m_names[j] # name
    ELSE 0

(***************************************************************************)
(* A fill in progress: f = [tbl, col, type, status, marks, trace, path,    *)
(* spill, done].  col is the column handle, type the current destination   *)
(* type, marks the unset/clear calls made, trace the destination types the *)
(* fill went through, spill the bytes a copy wrote past the element        *)
(* storage of the column, in the memory that follows it.                   *)
(***************************************************************************)
\* MarkNull with the two markings exchanged
MarkNull_swapped(f, i, is_update) ==
    [f EXCEPT !.tbl.cols[f.col] = IF is_update THEN clear(@, i) ELSE unset(@, i),
              !.marks = @ \cup {<<i, IF is_update THEN "clear" ELSE "unset">>}]

\* the null marking of row i: unset on update, clear on load
MarkNull(f, i, is_update) ==
    [f EXCEPT !.tbl.cols[f.col] = IF is_update THEN unset(@, i) ELSE clear(@, i),
              !.marks = @ \cup {<<i, IF is_update THEN "unset" ELSE "clear">>}]

\* col->set_nth<T>(i, v) through the handle
SetNth(f, i, bytes) == [f EXCEPT !.tbl.cols[f.col] = set_nth(@, i, bytes)]

SetNthObj(f, i, o) == [f EXCEPT !.tbl.cols[f.col] = set_nth_obj(@, i, o)]

\* Promote without the assignment to the local `type`
Promote_keep_type(f, name, new_dtype, i, fill) ==
    LET t2 == promote_column(f.tbl, name, new_dtype, i, fill) IN
    IF HasColumn(t2, name)
    THEN [f EXCEPT !.tbl = t2, !.col = name, !.trace = Append(@, new_dtype)]
    ELSE [f EXCEPT !.tbl = t2, !.status = "NoSuchColumn"]

\* tbl.promote_column(name, new_dtype, i, fill); col = tbl.get_column(name)
Promote(f, name, new_dtype, i, fill) ==
    LET t2 == promote_column(f.tbl, name, new_dtype, i, fill) IN
    IF HasColumn(t2, name)
    THEN [f EXCEPT !.tbl = t2, !.col = name, !.type = new_dtype,
                   !.trace = Append(@, new_dtype)]
    ELSE [f EXCEPT !.tbl = t2, !.status = "NoSuchColumn"]

\* one row of NumpyLoader::fill_string_iter
fill_string_row(f, i, cidx, is_update) ==
    LET item == marshal(cidx, i, "DTYPE_STR") IN
    IF item.kind = "none" THEN MarkNull(f, i, is_update)
    ELSE IF to_bytes_throws(item.text) THEN [f EXCEPT !.status = "std::range_error"]
    ELSE SetNthObj(f, i, StrObj(to_bytes(item.text)))

\* NumpyLoader::fill_string_iter, rows i..nrows-1
RECURSIVE fill_string_iter(_, _, _, _, _)
fill_string_iter(f, i, nrows, cidx, is_update) ==
    IF i >= nrows \/ f.status # "ok" THEN f
    ELSE fill_string_iter(fill_string_row(f, i, cidx, is_update),
                          i + 1, nrows, cidx, is_update)

\* NumpyLoader::fill_bool_iter, rows i..nrows-1
RECURSIVE fill_bool_iter(_, _, _, _, _)
fill_bool_iter(f, i, nrows, cidx, is_update) ==
    IF i >= nrows THEN f
    ELSE LET item == marshal(cidx, i, "DTYPE_BOOL")
             f2 == IF item.kind = "none" THEN MarkNull(f, i, is_update)
                   ELSE SetNth(f, i, <<IF item.kind = "true" THEN 1 ELSE 0>>)
         IN  fill_bool_iter(f2, i + 1, nrows, cidx, is_update)

\* NumpyLoader::fill_date_iter, rows i..nrows-1
RECURSIVE fill_date_iter(_, _, _, _, _)
fill_date_iter(f, i, nrows, cidx, is_update) ==
    IF i >= nrows THEN f
    ELSE LET item == marshal(cidx, i, "DTYPE_DATE")
             f2 == IF item.kind = "none" THEN MarkNull(f, i, is_update)
                   ELSE SetNthObj(f, i, DateObj(item.ymd))
         IN  fill_date_iter(f2, i + 1, nrows, cidx, is_update)

\* NumpyLoader::fill_datetime_iter, rows i..nrows-1: int64 seconds * 1000
RECURSIVE fill_datetime_iter(_, _, _, _, _)
fill_datetime_iter(f, array, i, nrows, is_update) ==
    IF i >= nrows \/ f.status # "ok" THEN f
    ELSE IF ~Readable(array, i, 8) THEN [f EXCEPT !.status = "SIGSEGV"]
    ELSE LET item == MulSmallB(ReadAt(array, i, 8), 1000, 0)
             f2 == IF npy_isnan(I64ToF64(item)) THEN MarkNull(f, i, is_update)
                   ELSE SetNth(f, i, item)
         IN  fill_datetime_iter(f2, array, i + 1, nrows, is_update)

\* after tbl.promote_column(name, DTYPE_FLOAT64, i, true) and the rebinding
\* of col: col->set_nth(i, item)
WriteAfterPromotion(p, i, item) ==
    IF p.status = "ok" THEN SetNth(p, i, item) ELSE p

\* after tbl.promote_column(name, DTYPE_STR, i, false) and the rebinding of
\* col: fill_string_iter over the column, then return
StringAfterPromotion(p, nrows, cidx, is_update) ==
    IF p.status = "ok"
    THEN [fill_string_iter(p, 0, nrows, cidx, is_update) EXCEPT !.done = TRUE]
    ELSE p

\* the switch of NumpyLoader::fill_numeric_iter for row i, which is not NaN
\* when read as a double
fill_numeric_case(f, array, name, np_dtype, i, nrows, cidx, is_update) ==
    CASE f.type = "DTYPE_INT32" ->
            IF GtInt32Max(ReadAt(array, i, 8)) \/ LtInt32Min(ReadAt(array, i, 8))
            THEN WriteAfterPromotion(Promote(f, name, "DTYPE_FLOAT64", i, TRUE),
                                     i, ReadAt(array, i, 8))
            ELSE IF np_dtype = "DTYPE_INT64"
                 THEN SetNth(f, i, Resize(ReadAt(array, i, 8), 4))
                 ELSE SetNth(f, i, ReadAt(array, i, 4))
      [] f.type = "DTYPE_INT64" ->
            IF npy_isnan(I64ToF64(ReadAt(array, i, 8)))
            THEN StringAfterPromotion(Promote(f, name, "DTYPE_STR", i, FALSE),
                                      nrows, cidx, is_update)
            ELSE SetNth(f, i, ReadAt(array, i, 8))
      [] f.type = "DTYPE_FLOAT64" ->
            IF npy_isnan(ReadAt(array, i, 8))
            THEN StringAfterPromotion(Promote(f, name, "DTYPE_STR", i, FALSE),
                                      nrows, cidx, is_update)
            ELSE IF np_dtype = "DTYPE_INT64"
                 THEN SetNth(f, i, I64ToF64(ReadAt(array, i, 8)))
                 ELSE SetNth(f, i, ReadAt(array, i, 8))
      [] f.type \in NumericTypes -> SetNth(f, i, ReadAt(array, i, Width(f.type)))
      [] OTHER -> f

\* NumpyLoader::fill_numeric_iter, rows i..nrows-1
RECURSIVE fill_numeric_iter(_, _, _, _, _, _, _, _)
fill_numeric_iter(f, array, name, np_dtype, i, nrows, cidx, is_update) ==
    IF i >= nrows \/ f.done \/ f.status # "ok" THEN f
    ELSE IF ~Readable(array, i, 8) THEN [f EXCEPT !.status = "SIGSEGV"]
    ELSE fill_numeric_iter(
             IF npy_isnan(ReadAt(array, i, 8))
             THEN MarkNull(f, i, is_update)
             ELSE fill_numeric_case(f, array, name, np_dtype, i, nrows, cidx, is_update),
             array, name, np_dtype, i + 1, nrows, cidx, is_update)

\* the switch of NumpyLoader::fill_column_iter on the destination type
fill_column_iter_switch(g, array, name, np_dtype, nrows, cidx, is_update) ==
    CASE g.type = "DTYPE_TIME" -> fill_datetime_iter(g, array, 0, nrows, is_update)
      [] g.type = "DTYPE_DATE" -> fill_date_iter(g, 0, nrows, cidx, is_update)
      [] g.type = "DTYPE_BOOL" -> fill_bool_iter(g, 0, nrows, cidx, is_update)
      [] g.type = "DTYPE_STR" -> fill_string_iter(g, 0, nrows, cidx, is_update)
      [] OTHER -> fill_numeric_iter(g, array, name, np_dtype, 0, nrows, cidx, is_update)

\* NumpyLoader::fill_column_iter; every fill_*_iter takes nrows from
\* col->size()
fill_column_iter(f, array, name, np_dtype, cidx, is_update) ==
    fill_column_iter_switch([f EXCEPT !.path = "iter"], array, name, np_dtype,
                            ColSize(f.tbl.cols[f.col]), cidx, is_update)

\* NumpyLoader::copy_array: FILL_SUCCEED exactly for the ten numeric types
copy_array_succeeds(np_dtype) == np_dtype \in NumericTypes

\* copy_array_helper<T>: memcpy of dest->size() * sizeof(T) bytes to the
\* start of the destination storage, T the source element type; the bytes
\* that do not fit the element storage land in the memory after it
copy_array_helper(f, src, np_dtype) ==
    [f EXCEPT !.tbl.cols[f.col].raw =
                  WriteBytes(@, 0, SubSeq(src, 1, ColSize(f.tbl.cols[f.col]) * Width(np_dtype))),
              !.spill =
                  SubSeq(src, Len(f.tbl.cols[f.col].raw) + 1,
                         ColSize(f.tbl.cols[f.col]) * Width(np_dtype)),
              !.path = "bulk"]

\* col->valid_raw_fill() through the handle
ValidRawFill(f) == [f EXCEPT !.tbl.cols[f.col] = valid_raw_fill(@)]

\* the null list applied after a successful copy, entries k..Len(mask)
RECURSIVE apply_mask(_, _, _, _)
apply_mask(f, mask, k, is_update) ==
    IF k > Len(mask) THEN f
    ELSE apply_mask(MarkNull(f, mask[k], is_update), mask, k + 1, is_update)

\* a set of row offsets as the ascending list the accessor returns
RECURSIVE MaskList(_)
MaskList(S) ==
    IF S = {} THEN <<>>
    ELSE <<CHOOSE x \in S : \A y \in S : x <= y>>
         \o MaskList(S \ {CHOOSE x \in S : \A y \in S : x <= y})

\* the int64 source, int32 or float64 destination guard of fill_column
MismatchGuard(np_dtype, type) ==
    np_dtype = "DTYPE_INT64" /\ (type = "DTYPE_INT32" \/ type = "DTYPE_FLOAT64")

\* array.data() as the loader reads through it: the bytes of the array,
\* then the readable bytes that follow it in memory; past those a read
\* faults
array_data(source) == source.mem \o source.past

\* NumpyLoader::fill_column once the source column is resolved: the guard,
\* the bulk copy with the validity map, or the iterative fill
fill_column_source(f0, source, name, np_dtype, cidx, is_update) ==
    IF ~source.is_array THEN [f0 EXCEPT !.status = "NotAnArray"]
    ELSE IF MismatchGuard(np_dtype, f0.type) \/ ~copy_array_succeeds(np_dtype)
    THEN fill_column_iter(f0, array_data(source), name, np_dtype, cidx, is_update)
    ELSE apply_mask(ValidRawFill(copy_array_helper(f0, source.mem, np_dtype)),
                    MaskList(source.nulls), 1, is_update)

\* the state of a fill at the entry of fill_column
FillStart(t, col, type) ==
    [tbl |-> t, col |-> col, type |-> type, status |-> "ok",
     marks |-> {}, trace |-> <<type>>, path |-> "none",
     spill |-> <<>>, done |-> FALSE]

\* NumpyLoader::fill_column
fill_column(t, col, name, type, cidx, is_update) ==
    IF NameIndex(name) = 0
    THEN [FillStart(t, col, type) EXCEPT !.status = "UnknownColumn"]
    ELSE fill_column_source(FillStart(t, col, type), get_numpy_column(name), name,
                            m_types[NameIndex(name)], cidx, is_update)

\* the record of one fill_column kept in `fills`
FillEntry(f, col, name, type) ==
    [name |-> name, dest |-> col, type |-> type,
     np_dtype |-> IF NameIndex(name) = 0 THEN "none" ELSE m_types[NameIndex(name)],
     status |-> f.status, path |-> f.path, marks |-> f.marks, trace |-> f.trace,
     spill |-> f.spill, final |-> f.col]

\* fill_table after the fill_column of schema column `name`: the clone of
\* psp_pkey into psp_okey for the sentinel, and the abort of the call when
\* the fill failed
after_fill_column(st, f, col, name, type) ==
    [tbl |-> IF name = "__INDEX__" /\ f.status = "ok"
             THEN clone_column(f.tbl, "psp_pkey", "psp_okey") ELSE f.tbl,
     status |-> f.status,
     fills |-> Append(st.fills, FillEntry(f, col, name, type)),
     implicit_index |-> st.implicit_index \/ name = "__INDEX__"]

\* one pass of the schema loop of fill_table: the sentinel is filled into a
\* new psp_pkey column, any other name into the table's column of that name
fill_schema_column(st, name, type, cidx, is_update) ==
    IF name # "__INDEX__" /\ ~HasColumn(st.tbl, name)
    THEN [st EXCEPT !.status = "NoSuchColumn"]
    ELSE after_fill_column(
             st,
             fill_column(IF name = "__INDEX__"
                         THEN add_column(st.tbl, "psp_pkey", type) ELSE st.tbl,
                         IF name = "__INDEX__" THEN "psp_pkey" ELSE name,
                         name, type, cidx, is_update),
             IF name = "__INDEX__" THEN "psp_pkey" ELSE name, name, type)

\* the schema loop of NumpyLoader::fill_table from column cidx (0-based) on;
\* st = [tbl, status, fills, implicit_index].  A failed fill_column aborts
\* the call.
RECURSIVE fill_schema_columns(_, _, _, _)
fill_schema_columns(st, input_schema, cidx, is_update) ==
    IF cidx >= Len(input_schema) \/ st.status # "ok" THEN st
    ELSE fill_schema_columns(
             fill_schema_column(st, input_schema[cidx + 1].name,
                                input_schema[cidx + 1].type, cidx, is_update),
             input_schema, cidx + 1, is_update)

\* a row number as std::uint32_t
U32(n) == <<n % 256, (n \div 256) % 256, (n \div 65536) % 256, n \div 16777216>>

\* RowIndex without the batch offset
RowIndex_no_offset(ridx, offset, limit) ==
    IF IsZeroB(limit) THEN U32(ridx) ELSE ModB(U32(ridx), limit)

\* (ridx + offset) % limit in std::uint32_t arithmetic.  Division by zero is
\* undefined: where the hardware does not trap, the quotient of a division
\* by zero is 0 and the remainder is the dividend, ridx + offset.
RowIndex(ridx, offset, limit) ==
    IF IsZeroB(limit) THEN AddB(U32(ridx), offset, 0)
    ELSE ModB(AddB(U32(ridx), offset, 0), limit)

\* set_row_number with psp_okey given the bare row number
set_row_number_bare_okey(t, ridx, v) ==
    [t EXCEPT !.cols["psp_pkey"] = set_nth(@, ridx, v),
              !.cols["psp_okey"] = set_nth(@, ridx, U32(ridx))]

\* set_nth<std::int32_t>(ridx, v) on psp_pkey and on psp_okey
set_row_number(t, ridx, v) ==
    [t EXCEPT !.cols["psp_pkey"] = set_nth(@, ridx, v),
              !.cols["psp_okey"] = set_nth(@, ridx, v)]

\* the row-number loop of fill_table, rows ridx..size-1
RECURSIVE fill_row_numbers(_, _, _, _)
fill_row_numbers(t, ridx, offset, limit) ==
    IF ridx >= t.size THEN t
    ELSE fill_row_numbers(set_row_number(t, ridx, RowIndex(ridx, offset, limit)),
                          ridx + 1, offset, limit)

\* the index columns of fill_table when the schema had no __INDEX__ column;
\* ub = "trap" is the hardware on which a division by zero raises SIGFPE
fill_index(st, index, offset, limit, ub) ==
    IF index = ""
    THEN IF IsZeroB(limit) /\ st.tbl.size > 0 /\ ub = "trap"
         THEN [st EXCEPT !.status = "SIGFPE",
                  !.tbl = add_column(add_column(@, "psp_pkey", "DTYPE_INT32"),
                                     "psp_okey", "DTYPE_INT32")]
         ELSE [st EXCEPT
                  !.tbl = fill_row_numbers(
                              add_column(add_column(@, "psp_pkey", "DTYPE_INT32"),
                                         "psp_okey", "DTYPE_INT32"),
                              0, offset, limit)]
    ELSE IF ~HasColumn(st.tbl, index) THEN st
    ELSE [st EXCEPT !.tbl = clone_column(clone_column(@, index, "psp_pkey"),
                                         index, "psp_okey")]

\* fill_table_index that goes on to the index columns after a failed fill
fill_table_index_after_failure(st, index, offset, limit, ub) ==
    IF st.implicit_index THEN st ELSE fill_index(st, index, offset, limit, ub)

\* fill_table after the schema loop
fill_table_index(st, index, offset, limit, ub) ==
    IF st.status # "ok" \/ st.implicit_index THEN st
    ELSE fill_index(st, index, offset, limit, ub)

\* NumpyLoader::fill_table
fill_table(t, input_schema, index, offset, limit, is_update, ub) ==
    fill_table_index(
        fill_schema_columns([tbl |-> t, status |-> "ok", fills |-> <<>>,
                             implicit_index |-> FALSE],
                            input_schema, 0, is_update),
        index, offset, limit, ub)

(***************************************************************************)
(* Inputs                                                                  *)
(***************************************************************************)
NoTable == [size |-> 0 - 1, cols |-> <<>>]

NoCall == [schema |-> <<>>, index |-> "", offset |-> Zeros(4), limit |-> Zeros(4),
           is_update |-> FALSE, ub |-> "trap"]

Result(op, status, value) == [op |-> op, status |-> status, value |-> value]

\* the sequences of length 0..n of distinct elements of S
RECURSIVE DistinctSeqs(_, _)
DistinctSeqs(S, n) ==
    IF n = 0 THEN {<<>>}
    ELSE LET shorter == DistinctSeqs(S, n - 1) IN
         shorter \cup
         {Append(q, x) : <<q, x>> \in
            {<<q, x>> \in shorter \X S : \A k \in 1..Len(q) : q[k] # x}}

\* the elements ws of a source array laid out one after the other, each at
\* its first w bytes
Flatten(ws, w) ==
    [k \in 1..(w * Len(ws)) |-> ws[((k - 1) \div w) + 1][((k - 1) % w) + 1]]

\* an int32 array of n elements counting up from 10 * k
PlainMem(k, n) ==
    [j \in 1..(4 * n) |-> IF (j - 1) % 4 = 0 THEN 10 * k + ((j - 1) \div 4) ELSE 0]

\* the accessor's column orders explored for the index and life-cycle claims
NameLayouts ==
    {<<"a">>, <<"a", "b">>, <<"b", "a">>, <<"__INDEX__", "a">>, <<"a", "__INDEX__">>}

\* plain int32 data in every layout, and one data set holding a list
IndexDataSets ==
    {[nrows |-> n,
      cols |-> [k \in 1..Len(l) |->
                  [name |-> l[k], dtype |-> "DTYPE_INT32", is_array |-> TRUE,
                   mem |-> PlainMem(k, n), nulls |-> {}, past |-> <<>>]]]
        : <<l, n>> \in NameLayouts \X (0..MaxRows)}
    \cup
    {[nrows |-> 1,
      cols |-> <<[name |-> "a", dtype |-> "DTYPE_STR", is_array |-> FALSE,
                  mem |-> Zeros(8), nulls |-> {}, past |-> <<>>]>>]}

U32_5 == <<5, 0, 0, 0>>
U32_10 == <<10, 0, 0, 0>>
U32_2P31 == <<0, 0, 0, 128>>
U32_MAX == <<255, 255, 255, 255>>

Offsets == {Zeros(4), U32_5, U32_2P31, U32_MAX}
Limits == {Zeros(4), U32_10, U32_MAX}

\* the fill_table calls explored for the index and life-cycle claims:
\* schemas of up to two int32 columns over the source names, a name the
\* source lacks and the sentinel; the index is empty or a schema column
IndexCalls ==
    LET pool == {m_accessor.cols[k].name : k \in 1..Len(m_accessor.cols)}
                   \cup {"x", "__INDEX__"}
    IN  {[schema |-> [k \in 1..Len(q) |-> [name |-> q[k], type |-> "DTYPE_INT32"]],
          index |-> ix, offset |-> o, limit |-> l, is_update |-> u, ub |-> ub]
            : <<q, ix, o, l, u, ub>> \in
              {<<q, ix, o, l, u, ub>> \in
                  DistinctSeqs(pool, 2) \X {"", "a", "b"} \X Offsets \X Limits
                      \X BOOLEAN \X {"trap", "dividend"} :
                  /\ ix = "" \/ \E k \in 1..Len(q) : q[k] = ix
                  /\ ub = "dividend" => IsZeroB(l) /\ ix = ""}}

\* sample 8-byte words: int64 5, int64 -1 (a NaN when read as a double),
\* int64 2^31, and the double 3e9 (0x41E65A0BC0000000)
W_5 == <<5, 0, 0, 0, 0, 0, 0, 0>>
W_NEG1 == <<255, 255, 255, 255, 255, 255, 255, 255>>
W_2P31 == <<0, 0, 0, 128, 0, 0, 0, 0>>
W_3E9 == <<0, 0, 0, 192, 11, 90, 230, 65>>

W_FALSE == <<0, 0, 0, 0, 0, 0, 0, 0>>
W_TRUE == <<1, 0, 0, 0, 0, 0, 0, 0>>

Words == {W_5, W_NEG1, W_2P31, W_3E9}

\* the destination types of the value calls: every type a schema can
\* declare
DstTypesData == ColumnTypes

W_F16_ONE == <<0, 60, 0, 0, 0, 0, 0, 0>>

\* the arrays sampled as sources, by numpy dtype: the eleven dtypes
\* make_types tells apart and two of the others, an array of objects and a
\* float16 array
SourceKinds ==
    {"uint8", "uint16", "uint32", "uint64", "int8", "int16", "int32", "int64",
     "float32", "float64", "bool", "object", "float16"}

\* the type make_types pushes for an array, its tests in their order:
\* DTYPE_STR for every dtype it does not test for
InferredType(kind) ==
    CASE kind = "uint8" -> "DTYPE_UINT8"
      [] kind = "uint16" -> "DTYPE_UINT16"
      [] kind = "uint32" -> "DTYPE_UINT32"
      [] kind = "uint64" -> "DTYPE_UINT64"
      [] kind = "int8" -> "DTYPE_INT8"
      [] kind = "int16" -> "DTYPE_INT16"
      [] kind = "int32" -> "DTYPE_INT32"
      [] kind = "int64" -> "DTYPE_INT64"
      [] kind = "float32" -> "DTYPE_FLOAT32"
      [] kind = "float64" -> "DTYPE_FLOAT64"
      [] kind = "bool" -> "DTYPE_BOOL"
      [] OTHER -> "DTYPE_STR"

\* the size in bytes of one element of an array of the dtype: sizeof(T) of
\* the py::array_t<T> make_types matches, a pointer for an array of
\* objects, two bytes for float16
ItemSize(kind) ==
    CASE kind \in {"uint8", "int8", "bool"} -> 1
      [] kind \in {"uint16", "int16", "float16"} -> 2
      [] kind \in {"uint32", "int32", "float32"} -> 4
      [] kind \in {"uint64", "int64", "float64", "object"} -> 8

\* the bytes the loader reads from an array of n elements: the array
\* itself when copy_array copies it, 8 bytes per row when it is filled
\* row by row
ReadSpan(kind, n) ==
    IF copy_array_succeeds(InferredType(kind)) THEN n * ItemSize(kind) ELSE 8 * n

\* the element contents sampled for an array, each element the first
\* ItemSize bytes of a word: every word for int64, the type the iterative
\* numeric path reads, false and true for bool, 1.0 and all-ones for
\* float16, and one plain and one all-ones element for the others
SourceWords(kind) ==
    CASE kind = "int64" -> Words
      [] kind = "bool" -> {W_FALSE, W_TRUE}
      [] kind = "float16" -> {W_F16_ONE, W_NEG1}
      [] OTHER -> {W_5, W_NEG1}

\* bytes another allocation left behind
HeapBytes == <<145, 145, 223, 85, 0, 0, 0, 0>>

\* the readable memory sampled after an array of len bytes that is read
\* up to byte upto: none, zeros, all-ones bytes, a recycled heap block, the
\* tail of a large double in the first 8 bytes, and one word of zeros
\* before the end of the mapping
PastSamples(len, upto) ==
    IF upto <= len THEN {<<>>}
    ELSE {<<>>,
          [k \in 1..(upto - len) |-> 0],
          [k \in 1..(upto - len) |-> 255],
          [k \in 1..(upto - len) |-> HeapBytes[((k - 1) % 8) + 1]],
          [k \in 1..(upto - len) |->
              CASE k + len = 7 -> 240 [] k + len = 8 -> 65 [] OTHER -> 0]}
         \cup (IF upto - len > 8 THEN {Zeros(8)} ELSE {})

\* the names sampled for the source column: "a", and the sentinel for the
\* integer arrays
SourceNames(kind) ==
    IF kind \in {"int32", "int64"} THEN {"a", "__INDEX__"} ELSE {"a"}

\* the null lists sampled for a source of n rows: empty, one row, every row
NullLists(n) == {{}, 0..(n - 1)} \cup {{r} : r \in 0..(n - 1)}

\* one source column of every sampled array dtype, name, memory content,
\* null list and memory after the array
ValueDataSets ==
    UNION {
      {[nrows |-> n,
        cols |-> <<[name |-> nm, dtype |-> InferredType(kind), is_array |-> TRUE,
                    mem |-> Flatten(ws, ItemSize(kind)), nulls |-> ns,
                    past |-> pa]>>]
          : <<nm, ws, ns, pa>> \in
            SourceNames(kind) \X [1..n -> SourceWords(kind)] \X NullLists(n)
                \X PastSamples(n * ItemSize(kind), ReadSpan(kind, n))}
      : <<kind, n>> \in SourceKinds \X (1..MaxRows)}

\* the fill_table calls explored for the value claims: the one source
\* column under every sampled destination type
ValueCalls ==
    {[schema |-> <<[name |-> m_accessor.cols[1].name, type |-> ty]>>,
      index |-> "", offset |-> Zeros(4), limit |-> U32_10, is_update |-> u,
      ub |-> "trap"]
        : <<ty, u>> \in DstTypesData \X BOOLEAN}

\* the table the caller builds for a call: one column per schema column
\* (the sentinel too when with_sentinel), row_count rows
CallerTable(c, with_sentinel) ==
    LET keep == SelectSeq(c.schema, LAMBDA e : with_sentinel \/ e.name # "__INDEX__")
    IN  NewTable([k \in 1..Len(keep) |-> keep[k].name],
                 [k \in 1..Len(keep) |-> keep[k].type],
                 accessor_row_count)

(***************************************************************************)
(* Actions                                                                 *)
(***************************************************************************)
\* NumpyLoader::NumpyLoader over an accessor of the given data sets
Construct(datasets) ==
    /\ m_init = FALSE
    /\ m_names = <<>>
    /\ m_types = <<>>
    /\ m_accessor \in datasets
    /\ tbl = NoTable
    /\ call = NoCall
    /\ fills = <<>>
    /\ ret = Result("construct", "ok", <<>>)

\* NumpyLoader::init
init ==
    /\ m_names' = make_names
    /\ IF make_types_ok
       THEN /\ m_types' = make_types
            /\ m_init' = TRUE
            /\ ret' = Result("init", "ok", <<>>)
       ELSE /\ UNCHANGED <<m_types, m_init>>
            /\ ret' = Result("init", "MixedColumnKinds", <<>>)
    /\ UNCHANGED <<m_accessor, tbl, call, fills>>

\* names without the m_init assertion
names_unchecked ==
    /\ ret' = Result("names", "ok", m_names)
    /\ UNCHANGED <<m_init, m_names, m_types, m_accessor, tbl, call, fills>>

\* NumpyLoader::names
names ==
    /\ ret' = IF m_init THEN Result("names", "ok", m_names)
              ELSE Result("names", "NotInitialized", <<>>)
    /\ UNCHANGED <<m_init, m_names, m_types, m_accessor, tbl, call, fills>>

\* NumpyLoader::types
types ==
    /\ ret' = IF m_init THEN Result("types", "ok", m_types)
              ELSE Result("types", "NotInitialized", <<>>)
    /\ UNCHANGED <<m_init, m_names, m_types, m_accessor, tbl, call, fills>>

\* NumpyLoader::row_count
row_count ==
    /\ ret' = IF m_init THEN Result("row_count", "ok", <<accessor_row_count>>)
              ELSE Result("row_count", "NotInitialized", <<>>)
    /\ UNCHANGED <<m_init, m_names, m_types, m_accessor, tbl, call, fills>>

\* the outcome r of a fill call on table record r.tbl, kept in the state
Returned(op, c, r, entries) ==
    /\ tbl' = r.tbl
    /\ fills' = entries
    /\ call' = c
    /\ ret' = Result(op, r.status, <<>>)

\* NumpyLoader::fill_table on a table the caller has just built; one table
\* is outstanding at a time
FillTable(calls) ==
    /\ tbl = NoTable
    /\ \E c \in calls, with_sentinel \in BOOLEAN :
         /\ with_sentinel => \E k \in 1..Len(c.schema) : c.schema[k].name = "__INDEX__"
         /\ IF m_init
            THEN \E r \in {fill_table(CallerTable(c, with_sentinel), c.schema, c.index,
                                      c.offset, c.limit, c.is_update, c.ub)} :
                    Returned("fill_table", c, r, r.fills)
            ELSE /\ ret' = Result("fill_table", "NotInitialized", <<>>)
                 /\ UNCHANGED <<tbl, fills, call>>
    /\ UNCHANGED <<m_init, m_names, m_types, m_accessor>>

\* the arguments of a fill_column call on its own, as a call record
ColumnCall(name, u) ==
    [NoCall EXCEPT !.schema = <<[name |-> name, type |-> "DTYPE_INT32"]>>,
                   !.is_update = u]

\* NumpyLoader::fill_column called on its own, on a one-column int32 table
FillColumn ==
    /\ tbl = NoTable
    /\ \E name \in {"a", "b", "x"}, u \in BOOLEAN :
         IF m_init
         THEN \E f \in {fill_column(CallerTable(ColumnCall(name, u), FALSE), name, name,
                                    "DTYPE_INT32", 0, u)} :
                 Returned("fill_column", ColumnCall(name, u), f,
                          <<FillEntry(f, name, name, "DTYPE_INT32")>>)
         ELSE /\ ret' = Result("fill_column", "NotInitialized", <<>>)
              /\ UNCHANGED <<tbl, fills, call>>
    /\ UNCHANGED <<m_init, m_names, m_types, m_accessor>>

\* the caller hands the filled table on and drops its reference
Release ==
    /\ tbl # NoTable
    /\ tbl' = NoTable
    /\ call' = NoCall
    /\ fills' = <<>>
    /\ ret' = Result("release", "ok", <<>>)
    /\ UNCHANGED <<m_init, m_names, m_types, m_accessor>>

(***************************************************************************)
(* Specifications                                                          *)
(***************************************************************************)
\* life cycle and index synthesis over plain data
Init == Construct(IndexDataSets)

Next ==
    \/ init
    \/ names
    \/ types
    \/ row_count
    \/ FillTable(IndexCalls)
    \/ FillColumn
    \/ Release

Spec == Init /\ [][Next]_vars

\* column fills over sampled memory contents: a loader is constructed,
\* initialised and fills one table
InitData == Construct(ValueDataSets)

NextData ==
    \/ init
    \/ FillTable(ValueCalls)

SpecData == InitData /\ [][NextData]_vars

(***************************************************************************)
(* Properties                                                              *)
(***************************************************************************)
SchemaHasSentinel == \E k \in 1..Len(call.schema) : call.schema[k].name = "__INDEX__"

\* the last call was a fill_table that got past the m_init assertion
FillTableRan == ret.op = "fill_table" /\ ret.status # "NotInitialized"

FillTableReturned == ret.op = "fill_table" /\ ret.status = "ok"

\* fill_table returned after generating row numbers
GeneratedIndex == FillTableReturned /\ call.index = "" /\ ~SchemaHasSentinel

Rows == 0..(tbl.size - 1)

\* two columns hold the same value in row r
SameCell(a, b, r) ==
    /\ CellBytes(a, r) = CellBytes(b, r)
    /\ a.obj[r + 1] = b.obj[r + 1]
    /\ a.status[r + 1] = b.status[r + 1]

\* C1: whenever fill_table returns, the table holds both index columns,
\* psp_pkey and psp_okey, and in every row the two hold the same value.
C1_IndexColumnsEqual ==
    FillTableReturned =>
        /\ HasColumn(tbl, "psp_pkey")
        /\ HasColumn(tbl, "psp_okey")
        /\ tbl.cols["psp_pkey"].dtype = tbl.cols["psp_okey"].dtype
        /\ \A r \in Rows : SameCell(tbl.cols["psp_pkey"], tbl.cols["psp_okey"], r)

\* fill_table returned with both index columns cloned from the explicit
\* index column "a", two rows of distinct values
C1_Witness ==
    /\ FillTableReturned
    /\ call.index = "a"
    /\ ~SchemaHasSentinel
    /\ tbl.size = 2
    /\ HasColumn(tbl, "psp_okey")
    /\ CellBytes(tbl.cols["psp_okey"], 0) # CellBytes(tbl.cols["psp_okey"], 1)
    /\ CellBytes(tbl.cols["psp_okey"], 1) = CellBytes(tbl.cols["a"], 1)

\* (r + offset) mod limit over the natural numbers, on 5 bytes
MathRowIndex(r, offset, limit) ==
    ModB(AddB(Resize(U32(r), 5), Resize(offset, 5), 0), Resize(limit, 5))

\* r + offset fits std::uint32_t
SumFits(r, offset) == AddB(Resize(U32(r), 5), Resize(offset, 5), 0)[5] = 0

\* the int32 cell holds the natural number v (5 bytes)
Int32Holds(cell, v) == v[5] = 0 /\ cell = Resize(v, 4) /\ cell[4] < 128

\* row r of both index columns holds (r + offset) mod limit
RowHoldsMathIndex(r) ==
    /\ Int32Holds(CellBytes(tbl.cols["psp_pkey"], r),
                  MathRowIndex(r, call.offset, call.limit))
    /\ Int32Holds(CellBytes(tbl.cols["psp_okey"], r),
                  MathRowIndex(r, call.offset, call.limit))

\* C2 as stated: with generated row numbers and limit > 0, every row r of
\* psp_pkey and psp_okey holds the mathematical value (r + offset) mod limit,
\* for every offset and every limit.
C2_MathIndexAlways ==
    (GeneratedIndex /\ ~IsZeroB(call.limit)) => \A r \in Rows : RowHoldsMathIndex(r)

\* C2 as amended: with generated row numbers and limit > 0, row r of psp_pkey
\* and psp_okey holds the mathematical value (r + offset) mod limit whenever
\* r + offset is at most 4294967295 and that value is at most 2147483647.
C2_MathIndexInRange ==
    (GeneratedIndex /\ ~IsZeroB(call.limit)) =>
        \A r \in Rows :
            (SumFits(r, call.offset)
                /\ MathRowIndex(r, call.offset, call.limit)[4] < 128)
            => RowHoldsMathIndex(r)

\* row numbers generated with offset 2^31 and limit 10: row 1 holds
\* 2147483649 mod 10 = 9
C2_Witness ==
    /\ GeneratedIndex
    /\ call.offset = U32_2P31
    /\ call.limit = U32_10
    /\ tbl.size >= 2
    /\ CellBytes(tbl.cols["psp_pkey"], 1) = <<9, 0, 0, 0>>

\* every schema column was filled
AllColumnsFilled ==
    /\ Len(fills) = Len(call.schema)
    /\ \A k \in 1..Len(fills) : fills[k].status = "ok"

\* C3 as stated: when row numbers have to be generated and limit is not
\* greater than 0, fill_table fails with InvalidLimit.
C3_InvalidLimit ==
    (FillTableRan /\ AllColumnsFilled /\ call.index = "" /\ ~SchemaHasSentinel
        /\ IsZeroB(call.limit))
    => ret.status = "InvalidLimit"

\* C4: names, types, row_count, fill_table and fill_column fail with
\* NotInitialized while init has not completed; once it has, m_names and
\* m_types are the accessor's names and types as init read them, whatever
\* was filled since, and names and types return exactly them.
C4_InitGuardsAndCache ==
    /\ (~m_init /\ ret.op \in {"names", "types", "row_count", "fill_table", "fill_column"})
          => (ret.status = "NotInitialized" /\ ret.value = <<>> /\ tbl = NoTable)
    /\ m_init =>
          /\ m_names = make_names
          /\ m_types = make_types
          /\ ret.op = "names" => (ret.status = "ok" /\ ret.value = make_names)
          /\ ret.op = "types" => (ret.status = "ok" /\ ret.value = make_types)

\* names called after init and after a fill_table of two columns, the table
\* still outstanding
C4_Witness ==
    /\ m_init
    /\ ret.op = "names"
    /\ Len(ret.value) = 2
    /\ Len(fills) = 2
    /\ tbl # NoTable

\* schema column k is absent from the cached source column names, and is
\* the first such column
FirstAbsent(k) ==
    /\ k \in 1..Len(call.schema)
    /\ NameIndex(call.schema[k].name) = 0
    /\ \A j \in 1..(k - 1) : NameIndex(call.schema[j].name) # 0

\* C5: when the schema names a column (the sentinel included) that the
\* cached source names lack, the fill of that column fails with
\* UnknownColumn and fill_table is aborted there: no later schema column is
\* filled or touched, and no index column is synthesized afterwards.
C5_UnknownColumnAborts ==
    FillTableRan =>
        \A k \in 1..Len(call.schema) :
            FirstAbsent(k) =>
                /\ ret.status = "UnknownColumn"
                /\ Len(fills) = k
                /\ fills[k].status = "UnknownColumn"
                /\ fills[k].path = "none"
                /\ \A j \in (k + 1)..Len(call.schema) :
                      HasColumn(tbl, call.schema[j].name) =>
                          tbl.cols[call.schema[j].name]
                              = NewColumn(call.schema[j].type, tbl.size)
                /\ HasColumn(tbl, "psp_okey") =>
                      \E j \in 1..(k - 1) : call.schema[j].name = "__INDEX__"
                /\ HasColumn(tbl, "psp_pkey") =>
                      \E j \in 1..k : call.schema[j].name = "__INDEX__"

\* fill_table of the schema (x, a) over a source without x: aborted at x,
\* with rows to fill and column a still to come
C5_Witness ==
    /\ FillTableRan
    /\ Len(call.schema) = 2
    /\ call.schema[1].name = "x"
    /\ call.schema[2].name = "a"
    /\ NameIndex("a") # 0
    /\ ret.status = "UnknownColumn"
    /\ tbl.size = 2

\* the source column and the destination column of entry e of `fills`; the
\* destination is the column fill_column was handed
Source(e) == get_numpy_column(e.name)

Dest(e) == tbl.cols[e.dest]

\* element r of the source of e, at the width of its inferred type
SourceElement(e, r) == ReadAt(Source(e).mem, r, Width(e.np_dtype))

\* the marking the call's is_update selects
CallMark == IF call.is_update THEN "unset" ELSE "clear"

\* an int64 that is no int32
OutOfInt32(w) == SignExtend(Resize(w, 4), 8) # w

\* t is the first row of the int64 source of e whose value is out of the
\* int32 range
FirstOutOfInt32(e, t) ==
    /\ OutOfInt32(SourceElement(e, t))
    /\ \A r \in 0..(t - 1) : ~OutOfInt32(SourceElement(e, r))

\* C6 as stated, for the int64 sources of the iterative int32 path (psp_pkey
\* filled from the sentinel included): a source value above 2147483647 or
\* below -2147483648 at row t promotes the destination to float64, row t and
\* every later non-null row hold the float equal to the source value, and
\* the rows before t are equal to their source values as floats.
C6_Int32Promotion ==
    FillTableRan =>
        \A k \in 1..Len(fills) :
            (fills[k].type = "DTYPE_INT32" /\ fills[k].path = "iter"
                /\ fills[k].np_dtype = "DTYPE_INT64")
            => \A t \in Rows :
                  FirstOutOfInt32(fills[k], t) =>
                      /\ Dest(fills[k]).dtype = "DTYPE_FLOAT64"
                      /\ \A r \in Rows \ Source(fills[k]).nulls :
                            /\ CellBytes(Dest(fills[k]), r)
                                  = I64ToF64(SourceElement(fills[k], r))
                            /\ r >= t => Dest(fills[k]).status[r + 1] = "valid"

\* t is the first row of the source of e that is NaN when read as a double
FirstNaN(e, t) ==
    /\ Readable(array_data(Source(e)), t, 8)
    /\ npy_isnan(ReadAt(array_data(Source(e)), t, 8))
    /\ \A r \in 0..(t - 1) : ~npy_isnan(ReadAt(array_data(Source(e)), r, 8))

\* C7 as stated: in an iterative fill of an int64 or float64 destination, a
\* source row t marked NaN promotes the column to string, and row t holds
\* the marshaled text of its cell when the cell has one.
C7_StringPromotion ==
    FillTableRan =>
        \A k \in 1..Len(fills) :
            (fills[k].type \in {"DTYPE_INT64", "DTYPE_FLOAT64"} /\ fills[k].path = "iter")
            => \A t \in Rows :
                  FirstNaN(fills[k], t) =>
                      /\ Dest(fills[k]).dtype = "DTYPE_STR"
                      /\ t \notin Source(fills[k]).nulls =>
                            Dest(fills[k]).obj[t + 1] = StrObj(to_bytes(CellText(k - 1, t)))

\* byte b (from 1) of what the bulk copy of e wrote, read back: from the
\* element storage of the destination, or from the memory after it
CopiedByte(e, b) ==
    IF b <= Len(Dest(e).raw) THEN Dest(e).raw[b] ELSE e.spill[b - Len(Dest(e).raw)]

\* the bytes the bulk copy wrote for element r of the source are still
\* where the copy put them
CopiedElementIntact(e, r) ==
    /\ Len(Dest(e).raw) + Len(e.spill) >= (r + 1) * Width(e.np_dtype)
    /\ \A b \in (r * Width(e.np_dtype) + 1)..((r + 1) * Width(e.np_dtype)) :
          CopiedByte(e, b) = Source(e).mem[b]

\* C8: in every fill, bulk or iterative, a row is only ever marked absent by
\* unset when is_update is true and by clear when it is false; and after a
\* bulk copy every row of the null list is absent, under that marking, while
\* every other row is present and still holds the bytes copied for it.
C8_NullMarking ==
    FillTableRan =>
        \A k \in 1..Len(fills) :
            /\ \A m \in fills[k].marks : m[2] = CallMark
            /\ \A r \in Rows : Dest(fills[k]).status[r + 1] \in {"valid", "new", CallMark}
            /\ (fills[k].path = "bulk" /\ fills[k].status = "ok") =>
                  \A r \in Rows :
                      IF r \in Source(fills[k]).nulls
                      THEN /\ Dest(fills[k]).status[r + 1] = CallMark
                           /\ <<r, CallMark>> \in fills[k].marks
                      ELSE /\ Dest(fills[k]).status[r + 1] = "valid"
                           /\ CopiedElementIntact(fills[k], r)

\* an update that bulk-copied two int64 rows, the second one in the null
\* list: row 0 present with its value, row 1 unset
C8_Witness ==
    /\ FillTableReturned
    /\ call.is_update
    /\ Len(fills) = 1
    /\ fills[1].path = "bulk"
    /\ fills[1].np_dtype = "DTYPE_INT64"
    /\ fills[1].type = "DTYPE_INT64"
    /\ tbl.size = 2
    /\ Source(fills[1]).nulls = {1}
    /\ Dest(fills[1]).status = <<"valid", "unset">>
    /\ CellBytes(Dest(fills[1]), 0) = W_2P31

\* row r of the destination of e equals source element r within the
\* destination type, for the numeric pairs of int32, int64 and float64
RoundTripCell(e, r) ==
    CASE e.np_dtype = e.type ->
            /\ Dest(e).dtype = e.type
            /\ CellBytes(Dest(e), r) = SourceElement(e, r)
      [] e.np_dtype = "DTYPE_INT64" /\ e.type = "DTYPE_FLOAT64" ->
            /\ Dest(e).dtype = "DTYPE_FLOAT64"
            /\ CellBytes(Dest(e), r) = I64ToF64(SourceElement(e, r))
      [] e.np_dtype = "DTYPE_INT64" /\ e.type = "DTYPE_INT32" ->
            \/ /\ Dest(e).dtype = "DTYPE_INT32"
               /\ SignExtend(CellBytes(Dest(e), r), 8) = SourceElement(e, r)
            \/ /\ Dest(e).dtype = "DTYPE_FLOAT64"
               /\ CellBytes(Dest(e), r) = I64ToF64(SourceElement(e, r))
      [] e.np_dtype = "DTYPE_INT32" /\ e.type = "DTYPE_INT64" ->
            /\ Dest(e).dtype = "DTYPE_INT64"
            /\ CellBytes(Dest(e), r) = SignExtend(SourceElement(e, r), 8)
      [] e.np_dtype = "DTYPE_INT32" /\ e.type = "DTYPE_FLOAT64" ->
            /\ Dest(e).dtype = "DTYPE_FLOAT64"
            /\ CellBytes(Dest(e), r) = I32ToF64(SourceElement(e, r))
      [] OTHER -> TRUE

\* C9 as stated, for the numeric pairs of int32, int64 and float64: after a
\* fill from a source with an empty null list every row of the destination
\* is present and equals its source element within the destination type,
\* the iterative int64 to int32 and int64 to float64 fills included.
C9_RoundTrip ==
    FillTableRan =>
        \A k \in 1..Len(fills) :
            (fills[k].status = "ok" /\ Source(fills[k]).nulls = {}
                /\ fills[k].np_dtype \in {"DTYPE_INT32", "DTYPE_INT64", "DTYPE_FLOAT64"}
                /\ fills[k].type \in {"DTYPE_INT32", "DTYPE_INT64", "DTYPE_FLOAT64"})
            => \A r \in Rows :
                  /\ Dest(fills[k]).status[r + 1] = "valid"
                  /\ RoundTripCell(fills[k], r)

\* source and destination elements have the same kind and the same width
SameEncoding(np_dtype, type) ==
    Kind(np_dtype) = Kind(type) /\ Width(np_dtype) = Width(type)

\* C10 as stated: a column is filled by the bulk copy only when the source's
\* inferred element type and the destination's declared type have the same
\* element encoding.
C10_BulkOnlySameEncoding ==
    FillTableRan =>
        \A k \in 1..Len(fills) :
            fills[k].path = "bulk" => SameEncoding(fills[k].np_dtype, fills[k].type)


\* the type transitions a fill may make
Promotions ==
    {<<"DTYPE_INT32", "DTYPE_FLOAT64">>, <<"DTYPE_INT64", "DTYPE_STR">>,
     <<"DTYPE_FLOAT64", "DTYPE_STR">>}

\* the last type of the trace of entry e
LastType(e) == e.trace[Len(e.trace)]

\* C11: during one fill of one column the type under which the column is
\* written starts as the declared type and changes at most once, and then
\* only from int32 to float64, from int64 to string or from float64 to
\* string; a column promoted to float64 is not promoted again in the same
\* call and the type never goes back. The column the fill ends on carries
\* the last type of the fill, and the column the fill was handed carries
\* the declared type or the promoted one.
C11_PromotionOnce ==
    FillTableRan =>
        \A k \in 1..Len(fills) :
            /\ fills[k].trace[1] = fills[k].type
            /\ Len(fills[k].trace) <= 2
            /\ Len(fills[k].trace) = 2 =>
                  <<fills[k].trace[1], fills[k].trace[2]>> \in Promotions
            /\ fills[k].status = "ok" =>
                  /\ tbl.cols[fills[k].final].dtype = LastType(fills[k])
                  /\ Dest(fills[k]).dtype \in {fills[k].type, LastType(fills[k])}

\* an int32 column promoted to float64 at row 0 by an int64 source whose
\* row 1 reads as NaN: row 0 holds the float, row 1 is absent and the
\* column is still float64
C11_Witness ==
    /\ FillTableReturned
    /\ Len(fills) = 1
    /\ fills[1].status = "ok"
    /\ fills[1].dest = "a"
    /\ fills[1].trace = <<"DTYPE_INT32", "DTYPE_FLOAT64">>
    /\ tbl.size = 2
    /\ Source(fills[1]).nulls = {}
    /\ SourceElement(fills[1], 0) = W_3E9
    /\ npy_isnan(SourceElement(fills[1], 1))
    /\ Dest(fills[1]).dtype = "DTYPE_FLOAT64"
    /\ CellBytes(Dest(fills[1]), 0) = W_3E9
    /\ Dest(fills[1]).status = <<"valid", CallMark>>

=============================================================================
